---- MODULE Spec2Model ----
(***************************************************************************)
(* Model of the analysis task femtoUniverseDebugPhi                        *)
(* (PWGCF/FemtoUniverse/Tasks/femtoUniverseDebugPhi.cxx).                  *)
(*                                                                         *)
(* The task owns two histogram registries and is driven by the workflow:   *)
(* init() books the histograms, then process(col, parts) is called once    *)
(* per collision with the joined particle table.  Table positions are      *)
(* 0-based as in the source (part.index(), parts.iteratorAt(i)).           *)
(***************************************************************************)
EXTENDS Integers, Sequences, FiniteSets, TLC

\* ---- bounds of the model ------------------------------------------------
MaxRows == 4
NumCols == 2

\* ---- program constants (defaults of the Configurables) ------------------
ConfCutPhi == 338
ConfCutChildPos == 150
ConfCutChildNeg == 149

VARIABLES parts, pc, calls, EventRegistry, PhiRegistry, warnings, candidates, last

vars == <<parts, pc, calls, EventRegistry, PhiRegistry, warnings, candidates, last>>

\* ---- the data model (FemtoFullParticles rows, FDCollision) --------------
kTrack == "kTrack"
kPhi == "kPhi"
kPhiChild == "kPhiChild"
ParticleTypes == {kTrack, kPhi, kPhiChild}

ColIds == 0 .. (NumCols - 1)

\* The selection-bit masks and PID parameters of the two ConfigurableGroups.
Conf == [ConfCutPhi |-> ConfCutPhi, ConfCutChildPos |-> ConfCutChildPos,
         ConfCutChildNeg |-> ConfCutChildNeg, ConfChildPosIndex |-> 1, ConfChildNegIndex |-> 0]

\* What a row can be: its type tag and, for a Phi, its child linkage.  "link"
\* says how childrenIds relates to the two rows stored before the Phi.
Shapes ==
  {[partType |-> kTrack, has_children |-> FALSE, link |-> "none"],
   [partType |-> kPhiChild, has_children |-> FALSE, link |-> "none"],
   [partType |-> kPhi, has_children |-> FALSE, link |-> "none"],
   [partType |-> kPhi, has_children |-> TRUE, link |-> "both"],
   [partType |-> kPhi, has_children |-> TRUE, link |-> "firstWrong"],
   [partType |-> kPhi, has_children |-> TRUE, link |-> "secondWrong"]}

\* globalIndex() of the row at table position i (the table starts at offset 0).
GlobalIndexAt(i) == i

ChildrenIdsFor(i, link) ==
  CASE link = "both" -> <<GlobalIndexAt(i - 2), GlobalIndexAt(i - 1)>>
    [] link = "firstWrong" -> <<GlobalIndexAt(i - 1), GlobalIndexAt(i - 1)>>
    [] link = "secondWrong" -> <<GlobalIndexAt(i - 2), GlobalIndexAt(i - 2)>>
    [] OTHER -> <<GlobalIndexAt(i), GlobalIndexAt(i)>>

MkRow(i, sh, c) ==
  [partType |-> sh.partType, fdCollisionId |-> c, globalIndex |-> GlobalIndexAt(i),
   has_children |-> sh.has_children, childrenIds |-> ChildrenIdsFor(i, sh.link),
   cut |-> 0, pidcut |-> 0]

\* The particle table is grouped by collision: fdCollisionId never decreases.
SortedCols(n) ==
  {co \in [0 .. (n - 1) -> ColIds] :
     \A i \in 0 .. (n - 1) : \A j \in 0 .. (n - 1) : i <= j => co[i] <= co[j]}

MkTable(n, sh, co) == [i \in 0 .. (n - 1) |-> MkRow(i, sh[i], co[i])]

NoCall == [col |-> -1]

Init ==
  /\ \E n \in 0 .. MaxRows :
       \E co \in SortedCols(n) :
         \E sh \in [0 .. (n - 1) -> Shapes] : parts = MkTable(n, sh, co)
  /\ pc = "constructed"
  /\ calls = 0
  /\ EventRegistry = [booked |-> FALSE, fills |-> 0]
  /\ PhiRegistry = [booked |-> FALSE, Phi |-> 0, posChild |-> 0, negChild |-> 0]
  /\ warnings = 0
  /\ candidates = 0
  /\ last = NoCall

\* ---- init(InitContext&) -------------------------------------------------
init ==
  /\ pc = "constructed"
  /\ pc' = "ready"
  /\ EventRegistry' = [booked |-> TRUE, fills |-> 0]
  /\ PhiRegistry' = [booked |-> TRUE, Phi |-> 0, posChild |-> 0, negChild |-> 0]
  /\ UNCHANGED <<parts, calls, warnings, candidates, last>>

\* ---- process(col, parts) ------------------------------------------------

\* Partition partsOne: the positions of the Phi-tagged rows, in table order.
\* (The cut-bitmask conjunct of the filter is commented out in the source.)
RECURSIVE PartitionFrom(_, _, _)
PartitionFrom(conf, tbl, i) ==
  IF i \notin DOMAIN tbl THEN <<>>
  ELSE (IF tbl[i].partType = kPhi THEN <<i>> ELSE <<>>) \o PartitionFrom(conf, tbl, i + 1)

partsOne(conf, tbl) == PartitionFrom(conf, tbl, 0)

\* (variant: the slice is not restricted to the collision)
sliceWholePartition(partition, tbl, key) == partition

\* partsOne->sliceByCached(fdCollisionId, col.globalIndex(), cache)
sliceByCached(partition, tbl, key) ==
  SelectSeq(partition, LAMBDA i : tbl[i].fdCollisionId = key)

\* The outcome of one call: what was filled into each particle histogram, the
\* warnings logged, the table positions looked up (each tagged with the
\* candidate it was done for), the candidates the loop visited, and whether
\* the call died.
EmptyOut ==
  [PhiHistos |-> <<>>, posChildHistos |-> <<>>, negChildHistos |-> <<>>,
   warn |-> <<>>, reads |-> <<>>, iterated |-> <<>>, aborted |-> FALSE]

\* A lookup outside the table is undefined behaviour: the read faults, or it
\* yields whatever lies there.  Of a child row the task reads the global index
\* and the type tag (and fillQA the kinematics); the columns it never reads
\* (owning collision, child linkage, cut and PID bits) keep a placeholder.
Fault == [partType |-> "fault"]

StrayRows(want) ==
  [partType : ParticleTypes, fdCollisionId : {-1},
   globalIndex : {want, GlobalIndexAt(MaxRows)},
   has_children : {FALSE}, childrenIds : {<<0, 0>>}, cut : {0}, pidcut : {0}]

\* parts.iteratorAt(i); want is the child index the row read is compared with
iteratorAt(tbl, i, want) ==
  IF i \in DOMAIN tbl THEN {tbl[i]} ELSE {Fault} \cup StrayRows(want)

\* (variant: the has_children guard is missing)
SkipNothing(part) == FALSE

\* if (!part.has_children()) continue;
SkipCandidate(part) == ~part.has_children

\* posChild.globalIndex() != part.childrenIds()[0] || negChild.globalIndex() != part.childrenIds()[1]
IndicesMismatch(part, posChild, negChild) ==
  \/ posChild.globalIndex # part.childrenIds[1]
  \/ negChild.globalIndex # part.childrenIds[2]

\* (variant: one correctly tagged child is enough)
EitherChildSelected(conf, posChild, negChild) ==
  \/ posChild.partType = kPhiChild
  \/ negChild.partType = kPhiChild

\* The check on the Phi children: the type tags only.  The cut-bitmask and
\* isFullPIDSelected conjuncts are commented out in the source.
ChildrenSelected(conf, posChild, negChild) ==
  /\ posChild.partType = kPhiChild
  /\ negChild.partType = kPhiChild

\* (variant: the negative child is not filled)
FillWithoutNegChild(acc, i, posChild, negChild) ==
  [acc EXCEPT !.PhiHistos = Append(@, i),
              !.posChildHistos = Append(@, [part |-> i, at |-> i - 2, row |-> posChild])]

\* PhiHistos.fillQA(part); posChildHistos.fillQA(posChild); negChildHistos.fillQA(negChild);
FillAccepted(acc, i, posChild, negChild) ==
  [acc EXCEPT !.PhiHistos = Append(@, i),
              !.posChildHistos = Append(@, [part |-> i, at |-> i - 2, row |-> posChild]),
              !.negChildHistos = Append(@, [part |-> i, at |-> i - 1, row |-> negChild])]

\* Lines 98-111, once both children have been looked up.
Decide(conf, acc, tbl, i, posChild, negChild) ==
  IF IndicesMismatch(tbl[i], posChild, negChild)
  THEN [acc EXCEPT !.warn = Append(@, i)]
  ELSE IF ChildrenSelected(conf, posChild, negChild)
       THEN FillAccepted(acc, i, posChild, negChild)
       ELSE acc

\* One pass of the loop body for the candidate at position i: the set of
\* accumulators it can end in.
LoopBody(conf, acc, tbl, i) ==
  LET a0 == [acc EXCEPT !.iterated = Append(@, i)]
      a1 == [a0 EXCEPT !.reads = Append(@, [part |-> i, at |-> i - 2])]
      a2 == [a1 EXCEPT !.reads = Append(@, [part |-> i, at |-> i - 1])]
  IN IF SkipCandidate(tbl[i]) THEN {a0}
     ELSE UNION {
            IF posChild = Fault THEN {[a1 EXCEPT !.aborted = TRUE]}
            ELSE {IF negChild = Fault THEN [a2 EXCEPT !.aborted = TRUE]
                  ELSE Decide(conf, a2, tbl, i, posChild, negChild) :
                    negChild \in iteratorAt(tbl, i - 1, tbl[i].childrenIds[2])} :
              posChild \in iteratorAt(tbl, i - 2, tbl[i].childrenIds[1])}

\* for (auto& part : groupPartsOne) { ... }
RECURSIVE ProcessLoop(_, _, _, _, _)
ProcessLoop(conf, tbl, groupPartsOne, k, acc) ==
  IF k > Len(groupPartsOne) \/ acc.aborted THEN {acc}
  ELSE UNION {ProcessLoop(conf, tbl, groupPartsOne, k + 1, a) :
                a \in LoopBody(conf, acc, tbl, groupPartsOne[k])}

\* Everything one call process(col, tbl) can do to the particle histograms.
ProcessOutcomes(conf, col, tbl) ==
  ProcessLoop(conf, tbl, sliceByCached(partsOne(conf, tbl), tbl, col), 1, EmptyOut)

\* (variant: the event histogram is filled inside the loop)
EventFillsPerCandidate(groupPartsOne) == Len(groupPartsOne)

\* eventHisto.fillQA(col) stands before the loop: one fill per call.
EventFillsPerCall(groupPartsOne) == 1

HasChildrenCount(tbl, seq) == Len(SelectSeq(seq, LAMBDA i : tbl[i].has_children))

\* The workflow driver calls process once per collision of the data frame, in
\* the order of the collision table; calls counts the calls made so far.
process(col) ==
  /\ pc = "ready"
  /\ col = calls
  /\ \E out \in ProcessOutcomes(Conf, col, parts) :
       /\ EventRegistry' =
            [EventRegistry EXCEPT !.fills =
               @ + EventFillsPerCall(sliceByCached(partsOne(Conf, parts), parts, col))]
       /\ PhiRegistry' = [PhiRegistry EXCEPT !.Phi = @ + Len(out.PhiHistos),
                                             !.posChild = @ + Len(out.posChildHistos),
                                             !.negChild = @ + Len(out.negChildHistos)]
       /\ warnings' = warnings + Len(out.warn)
       /\ candidates' = candidates + HasChildrenCount(parts, out.iterated)
       /\ last' = [col |-> col, out |-> out, before |-> PhiRegistry]
       /\ pc' = IF out.aborted THEN "aborted" ELSE "ready"
  /\ calls' = calls + 1
  /\ UNCHANGED parts

Next ==
  \/ init
  \/ \E col \in ColIds : process(col)

Spec == Init /\ [][Next]_vars

\* ---- vocabulary of the properties ---------------------------------------

Called == last # NoCall

\* The Phi-tagged rows of collision c: the slice a call for c iterates over.
PhiRowsOf(c) == {i \in DOMAIN parts : parts[i].partType = kPhi /\ parts[i].fdCollisionId = c}

\* The number of entries of a fill log made for candidate p.
PhiFillsFor(out, p) == Cardinality({k \in DOMAIN out.PhiHistos : out.PhiHistos[k] = p})
ChildFillsFor(log, p) == Cardinality({k \in DOMAIN log : log[k].part = p})
WarningsFor(out, p) == Cardinality({k \in DOMAIN out.warn : out.warn[k] = p})
ReadsFor(out, p) == Cardinality({k \in DOMAIN out.reads : out.reads[k].part = p})

NoParticleFillFor(out, p) ==
  /\ PhiFillsFor(out, p) = 0
  /\ ChildFillsFor(out.posChildHistos, p) = 0
  /\ ChildFillsFor(out.negChildHistos, p) = 0

\* Candidate p has both presumed children inside the table.
ChildrenInTable(p) == (p - 2) \in DOMAIN parts /\ (p - 1) \in DOMAIN parts

IndicesMatch(p) ==
  /\ parts[p - 2].globalIndex = parts[p].childrenIds[1]
  /\ parts[p - 1].globalIndex = parts[p].childrenIds[2]

BothPhiChild(p) == parts[p - 2].partType = kPhiChild /\ parts[p - 1].partType = kPhiChild

\* C1: in a call for collision c, every Phi-tagged row p of c with children,
\* whose rows at p-2 and p-1 carry the recorded child indices and the PhiChild
\* tag, gets exactly one fill of each particle histogram: p itself, the row at
\* p-2 as positive child, the row at p-1 as negative child.
C1_AcceptedFilledOnce ==
  Called =>
    \A p \in PhiRowsOf(last.col) :
      (parts[p].has_children /\ ChildrenInTable(p) /\ IndicesMatch(p) /\ BothPhiChild(p)) =>
        /\ PhiFillsFor(last.out, p) = 1
        /\ ChildFillsFor(last.out.posChildHistos, p) = 1
        /\ ChildFillsFor(last.out.negChildHistos, p) = 1
        /\ \E k \in DOMAIN last.out.posChildHistos :
             last.out.posChildHistos[k] = [part |-> p, at |-> p - 2, row |-> parts[p - 2]]
        /\ \E k \in DOMAIN last.out.negChildHistos :
             last.out.negChildHistos[k] = [part |-> p, at |-> p - 1, row |-> parts[p - 1]]

\* The outcome with every trace of candidate p removed.
Without(out, p) ==
  [PhiHistos |-> SelectSeq(out.PhiHistos, LAMBDA i : i # p),
   posChildHistos |-> SelectSeq(out.posChildHistos, LAMBDA f : f.part # p),
   negChildHistos |-> SelectSeq(out.negChildHistos, LAMBDA f : f.part # p),
   warn |-> SelectSeq(out.warn, LAMBDA i : i # p),
   reads |-> SelectSeq(out.reads, LAMBDA r : r.part # p),
   iterated |-> SelectSeq(out.iterated, LAMBDA i : i # p),
   aborted |-> out.aborted]

\* What the call could have done had p not been in the slice.
OutcomesWithout(c, p) ==
  ProcessLoop(Conf, parts,
              SelectSeq(sliceByCached(partsOne(Conf, parts), parts, c), LAMBDA i : i # p),
              1, EmptyOut)

\* C2: a Phi-tagged row p with children whose rows at p-2 / p-1 do not carry
\* the recorded child indices gets no particle-histogram fill and exactly one
\* warning; the call does not abort, and the other candidates of the slice are
\* processed as if p had not been there.
C2_MismatchSkippedWithWarning ==
  Called =>
    \A p \in PhiRowsOf(last.col) :
      (parts[p].has_children /\ ChildrenInTable(p) /\ ~IndicesMatch(p)) =>
        /\ NoParticleFillFor(last.out, p)
        /\ WarningsFor(last.out, p) = 1
        /\ ~last.out.aborted
        /\ Without(last.out, p) \in OutcomesWithout(last.col, p)

\* C3: init fills nothing, every process call fills the event histogram
\* exactly once whatever the collision holds, and a call for a collision
\* without Phi-tagged rows leaves the three particle histograms as they were.
C3_EventFilledOncePerCall ==
  /\ EventRegistry.fills = calls
  /\ (calls = 0 => PhiRegistry.Phi = 0 /\ PhiRegistry.posChild = 0 /\ PhiRegistry.negChild = 0)
  /\ (Called /\ PhiRowsOf(last.col) = {} => PhiRegistry = last.before)

C3_Witness ==
  /\ Called
  /\ calls = 2
  /\ EventRegistry.fills = 2
  /\ PhiRowsOf(last.col) = {}
  /\ PhiRegistry.Phi = 1

\* C4: for a Phi-tagged row of the slice without children nothing but the
\* event histogram is filled, no row at index-2 / index-1 is looked up and no
\* warning is logged.
C4_NoChildrenNoEffect ==
  Called =>
    \A p \in PhiRowsOf(last.col) :
      ~parts[p].has_children =>
        /\ NoParticleFillFor(last.out, p)
        /\ ReadsFor(last.out, p) = 0
        /\ WarningsFor(last.out, p) = 0

C4_Witness ==
  /\ Called
  /\ ~last.out.aborted
  /\ \E p \in PhiRowsOf(last.col) :
       /\ ~parts[p].has_children
       /\ \E k \in DOMAIN last.out.iterated : last.out.iterated[k] = p
  /\ last.out.PhiHistos # <<>>

\* C7: a Phi-tagged row p with children whose rows at p-2 / p-1 carry the
\* recorded child indices, but not both the PhiChild tag, gets no fill of any
\* of the three particle histograms and no warning.
C7_WrongTagNoFillNoWarning ==
  Called =>
    \A p \in PhiRowsOf(last.col) :
      (parts[p].has_children /\ ChildrenInTable(p) /\ IndicesMatch(p) /\ ~BothPhiChild(p)) =>
        /\ NoParticleFillFor(last.out, p)
        /\ WarningsFor(last.out, p) = 0

C7_Witness ==
  /\ Called
  /\ ~last.out.aborted
  /\ \E p \in PhiRowsOf(last.col) :
       /\ parts[p].has_children /\ ChildrenInTable(p) /\ IndicesMatch(p)
       /\ parts[p - 2].partType = kPhiChild
       /\ parts[p - 1].partType # kPhiChild
       /\ ReadsFor(last.out, p) = 2

\* C8: every table position process looks up for a candidate (index-2 and
\* index-1) is a row of the table passed to the call.
C8_LookupsInsideTable ==
  Called => \A k \in DOMAIN last.out.reads : last.out.reads[k].at \in DOMAIN parts

FilledRows(out) ==
  [Phi |-> out.PhiHistos,
   posChild |-> [k \in DOMAIN out.posChildHistos |-> out.posChildHistos[k].at],
   negChild |-> [k \in DOMAIN out.negChildHistos |-> out.negChildHistos[k].at],
   warn |-> out.warn]

\* Tables that differ from parts only in the rows' cut bitmask and PID fields.
CutVariants ==
  {[i \in DOMAIN parts |->
      [parts[i] EXCEPT !.cut = IF flip[i] THEN ConfCutChildPos ELSE 0,
                       !.pidcut = IF flip[i] THEN 1 ELSE 0]] :
     flip \in [DOMAIN parts -> BOOLEAN]}

\* Other settings of the selection-bit masks and the PID parameters.
ConfVariants ==
  {Conf,
   [Conf EXCEPT !.ConfCutPhi = 0, !.ConfCutChildPos = 0, !.ConfCutChildNeg = 0],
   [Conf EXCEPT !.ConfChildPosIndex = 0, !.ConfChildNegIndex = 1]}

\* C5: whatever process did on (col, parts), every run on an input that
\* differs only in the rows' cut bitmasks and PID fields, under any setting of
\* the selection-bit masks and PID parameters, fills the same histograms
\* with the same rows and logs the same warnings.
C5_CutsAndPidIgnored ==
  Called =>
    \A conf \in ConfVariants : \A tbl \in CutVariants :
      \A o \in ProcessOutcomes(conf, last.col, tbl) :
        FilledRows(o) = FilledRows(last.out)

\* The contents of the particle histograms and the number of warnings a call
\* leaves behind when it starts from freshly booked registries.
Contents(out) ==
  [Phi |-> out.PhiHistos, posChild |-> out.posChildHistos,
   negChild |-> out.negChildHistos, warnings |-> Len(out.warn)]

\* C6: any second run of process on the identical (collision, particle-table)
\* input, from freshly initialized registries and the same configuration, ends
\* with the same histogram contents and the same number of warnings as the
\* run that was made.
C6_SameInputSameContents ==
  Called =>
    \A o \in ProcessOutcomes(Conf, last.col, parts) : Contents(o) = Contents(last.out)

\* C10 as claimed, for the candidates whose two lookups fall inside the table:
\* every row filled into a particle histogram during a call for collision c
\* belongs to c, the child rows at index-2 and index-1 included.
C10_FilledRowsOfCollision ==
  Called =>
    /\ \A k \in DOMAIN last.out.PhiHistos : last.out.PhiHistos[k] \in PhiRowsOf(last.col)
    /\ \A k \in DOMAIN last.out.posChildHistos :
         LET f == last.out.posChildHistos[k]
         IN ChildrenInTable(f.part) => parts[f.at].fdCollisionId = last.col
    /\ \A k \in DOMAIN last.out.negChildHistos :
         LET f == last.out.negChildHistos[k]
         IN ChildrenInTable(f.part) => parts[f.at].fdCollisionId = last.col

\* A child fill is the row looked up at the given distance before its Phi row,
\* tagged PhiChild and carrying the child index the Phi row records.
ChildFillOk(f, back, which) ==
  /\ f.part \in PhiRowsOf(last.col)
  /\ f.at = f.part - back
  /\ (f.at \in DOMAIN parts => f.row = parts[f.at])
  /\ f.row.partType = kPhiChild
  /\ f.row.globalIndex = parts[f.part].childrenIds[which]

\* C10 amended: every Phi row filled during a call for collision c belongs to
\* c; the child rows filled are the rows looked up at index-2 / index-1 of
\* such a Phi row, tagged PhiChild and carrying the child indices it records.
\* Their owning collision is not checked.
C10_PhiOfCollisionChildrenByIndex ==
  Called =>
    /\ \A k \in DOMAIN last.out.PhiHistos : last.out.PhiHistos[k] \in PhiRowsOf(last.col)
    /\ \A k \in DOMAIN last.out.posChildHistos : ChildFillOk(last.out.posChildHistos[k], 2, 1)
    /\ \A k \in DOMAIN last.out.negChildHistos : ChildFillOk(last.out.negChildHistos[k], 1, 2)

\* A call filled a child row of the table that belongs to another collision.
C10_Witness ==
  /\ Called
  /\ \E k \in DOMAIN last.out.posChildHistos :
       LET f == last.out.posChildHistos[k]
       IN ChildrenInTable(f.part) /\ parts[f.at].fdCollisionId # last.col

====
